---- MODULE Spec2Model ----
(***************************************************************************)
(* sparrownet: the shell-stack terminal.  The redux reducer `terminal`     *)
(* (gamestate/gameState.js), the action creators (terminalActions.js),     *)
(* the command engine (commandEngine.js), the mailbox command builder      *)
(* (game/common.js) and the chapter data (game/chapter1.js).               *)
(*                                                                         *)
(* JavaScript strings are TLA+ strings; + is \o, s.length is Len(s) and    *)
(* s.slice / s.split are computed character by character with SubSeq.      *)
(* A command table is the sequence of its entries in insertion order,      *)
(* which is the order `for ... in` enumerates the keys of the object.      *)
(***************************************************************************)
EXTENDS Integers, Sequences, FiniteSets, TLC

VARIABLES
    state,      \* store.getState().gameState
    mails,      \* chapter1.mails, closed over by the mailbox handlers
    timers,     \* callbacks handed to setTimeout and not yet fired
    started,    \* commandEngine.start has run (App module load)
    fault,      \* the last operation threw
    last,       \* history: the last operation, its input and what it dispatched
    sym,        \* history: the frames active before each unmatched PushShell,
                \* and the deepest nesting of the push/pop sequence so far
    runs,       \* history: number of runCommand calls so far
    hist        \* history: the shell as it was when the mailbox was entered,
                \* the commands run inside it and the successful next so far

vars == <<state, mails, timers, started, fault, last, sym, runs, hist>>

(***************************************************************************)
(* Bounds of the model.                                                    *)
(***************************************************************************)
MaxRuns == 4
MaxOutput == 2
MaxDepth == 2

Min(a, b) == IF a < b THEN a ELSE b

Last(s) == s[Len(s)]

Front(s) == SubSeq(s, 1, Len(s) - 1)

IsPrefix(s, t) == Len(s) <= Len(t) /\ SubSeq(t, 1, Len(s)) = s

(***************************************************************************)
(* JavaScript library functions used by the code.                          *)
(***************************************************************************)
\* String.prototype.split(' ')
RECURSIVE SplitAcc(_, _, _)
SplitAcc(s, cur, acc) ==
    IF Len(s) = 0 THEN Append(acc, cur)
    ELSE LET c == SubSeq(s, 1, 1)
             rest == SubSeq(s, 2, Len(s))
         IN IF c = " " THEN SplitAcc(rest, "", Append(acc, cur))
                       ELSE SplitAcc(rest, cur \o c, acc)

Split(s) == SplitAcc(s, "", <<>>)

\* String.prototype.slice(0, n)
Slice(s, n) == SubSeq(s, 1, Min(n, Len(s)))

\* pluralize(word, count)
pluralize(word, count) == IF count = 1 THEN word ELSE word \o "s"

\* Object.prototype.hasOwnProperty on a command table
HasOwnProperty(commands, key) ==
    \E i \in DOMAIN commands : commands[i].name = key

\* commands[key]
Lookup(commands, key) ==
    commands[CHOOSE i \in DOMAIN commands : commands[i].name = key]

\* A JavaScript value handed to Array.prototype.concat: a string or an array
Str(s) == [isArray |-> FALSE, str |-> s, items |-> <<>>]

Arr(a) == [isArray |-> TRUE, str |-> "", items |-> a]

\* Array.prototype.concat(value): an array argument is spread
Concat(arr, value) ==
    IF value.isArray THEN arr \o value.items ELSE Append(arr, value.str)

(***************************************************************************)
(* terminalActions.js: the action creators.                                *)
(***************************************************************************)
Undefined == "undefined"

inputEntered(value) == [type |-> "INPUT_ENTERED", value |-> value]

\* sendToOutput whose default is inverted
sendToOutput_inverted(value, returnInputArg) ==
    [type |-> "ADD_OUTPUT", value |-> value,
     returnInput |-> IF returnInputArg = Undefined THEN FALSE ELSE TRUE]

sendToOutput(value, returnInputArg) ==
    [type |-> "ADD_OUTPUT", value |-> value,
     returnInput |-> IF returnInputArg = Undefined THEN TRUE ELSE FALSE]

returnInput == [type |-> "RETURN_INPUT"]

pushShell(commands, prompt) ==
    [type |-> "PUSH_SHELL", commands |-> commands, prompt |-> prompt]

popShell == [type |-> "POP_SHELL"]

(***************************************************************************)
(* gameState.js: the reducer `terminal`, one operator per case.            *)
(***************************************************************************)
InitialState ==
    [prompt |-> "> ", shellStack |-> <<>>, output |-> <<>>, input |-> "",
     inputDisabled |-> FALSE, availableCommands |-> <<>>]

\* INPUT_ENTERED that replaces the transcript instead of appending to it
INPUT_ENTERED_replace(s, action) ==
    LET add == <<s.prompt \o action.value>>
    IN [s EXCEPT !.output = add, !.inputDisabled = TRUE]

\* INPUT_ENTERED that echoes with the fixed prompt of the first reducer
INPUT_ENTERED_fixedPrompt(s, action) ==
    LET add == <<"> " \o action.value>>
    IN [s EXCEPT !.output = s.output \o add, !.inputDisabled = TRUE]

\* INPUT_ENTERED that leaves input enabled
INPUT_ENTERED_enabled(s, action) ==
    LET add == <<s.prompt \o action.value>>
    IN [s EXCEPT !.output = s.output \o add, !.inputDisabled = FALSE]

\* INPUT_ENTERED that records the value without the prompt
INPUT_ENTERED_valueOnly(s, action) ==
    LET add == <<action.value>>
    IN [s EXCEPT !.output = s.output \o add, !.inputDisabled = TRUE]

INPUT_ENTERED(s, action) ==
    LET add == <<s.prompt \o action.value>>
    IN [s EXCEPT !.output = s.output \o add, !.inputDisabled = TRUE]

ADD_OUTPUT(s, action) ==
    [s EXCEPT !.output = Concat(s.output, action.value),
              !.inputDisabled = ~action.returnInput]

\* RETURN_INPUT that leaves the flag alone
RETURN_INPUT_noop(s, action) == s

\* RETURN_INPUT that returns a fresh state instead of spreading the old one
RETURN_INPUT_dropState(s, action) ==
    [InitialState EXCEPT !.inputDisabled = FALSE]

RETURN_INPUT(s, action) == [s EXCEPT !.inputDisabled = FALSE]

\* PUSH_SHELL that saves the frame it installs instead of the active one
PUSH_SHELL_savesNew(s, action) ==
    LET newShellStack ==
            Append(s.shellStack,
                   [commands |-> action.commands, prompt |-> action.prompt])
    IN [s EXCEPT !.shellStack = newShellStack,
                 !.availableCommands = action.commands,
                 !.prompt = action.prompt,
                 !.inputDisabled = FALSE]

\* PUSH_SHELL that installs the new shell without saving the active one
PUSH_SHELL_noSave(s, action) ==
    [s EXCEPT !.availableCommands = action.commands,
              !.prompt = action.prompt,
              !.inputDisabled = FALSE]

\* PUSH_SHELL that puts the saved frame at the head of shellStack
PUSH_SHELL_prepend(s, action) ==
    LET newShellStack ==
            <<[commands |-> s.availableCommands, prompt |-> s.prompt]>>
            \o s.shellStack
    IN [s EXCEPT !.shellStack = newShellStack,
                 !.availableCommands = action.commands,
                 !.prompt = action.prompt,
                 !.inputDisabled = FALSE]

PUSH_SHELL(s, action) ==
    LET newShellStack ==
            Append(s.shellStack,
                   [commands |-> s.availableCommands, prompt |-> s.prompt])
    IN [s EXCEPT !.shellStack = newShellStack,
                 !.availableCommands = action.commands,
                 !.prompt = action.prompt,
                 !.inputDisabled = FALSE]

\* state.shellStack[state.shellStack.length - 1] is undefined on an empty
\* stack and reading .commands of it throws a TypeError
PopThrows(s) == Len(s.shellStack) = 0

\* POP_SHELL that restores the bottom frame instead of the top one
POP_SHELL_bottom(s, action) ==
    [s EXCEPT !.availableCommands = s.shellStack[1].commands,
              !.prompt = s.shellStack[1].prompt,
              !.shellStack = SubSeq(s.shellStack, 1, Len(s.shellStack) - 1),
              !.inputDisabled = FALSE]

POP_SHELL(s, action) ==
    [s EXCEPT !.availableCommands = s.shellStack[Len(s.shellStack)].commands,
              !.prompt = s.shellStack[Len(s.shellStack)].prompt,
              !.shellStack = SubSeq(s.shellStack, 1, Len(s.shellStack) - 1),
              !.inputDisabled = FALSE]

Throws(s, action) == action.type = "POP_SHELL" /\ PopThrows(s)

terminal(s, action) ==
    CASE action.type = "INPUT_ENTERED" -> INPUT_ENTERED(s, action)
      [] action.type = "ADD_OUTPUT"    -> ADD_OUTPUT(s, action)
      [] action.type = "RETURN_INPUT"  -> RETURN_INPUT(s, action)
      [] action.type = "PUSH_SHELL"    -> PUSH_SHELL(s, action)
      [] action.type = "POP_SHELL"     -> POP_SHELL(s, action)
      [] OTHER                         -> s

(***************************************************************************)
(* store.js / redux: store.dispatch runs the reducer; when the reducer     *)
(* throws, the store keeps its state and the exception propagates to the   *)
(* caller, which abandons the rest of its work.  A context carries the     *)
(* store state, the mails, the pending timers, the exception flag and the  *)
(* history of what was dispatched.                                         *)
(***************************************************************************)
Ctx(s, m, t) ==
    [state |-> s, mails |-> m, timers |-> t, fault |-> FALSE,
     inHandler |-> FALSE, handler |-> "", log |-> <<>>]

Dispatch(ctx, action) ==
    IF ctx.fault THEN ctx
    ELSE IF Throws(ctx.state, action) THEN [ctx EXCEPT !.fault = TRUE]
    ELSE [ctx EXCEPT
            !.state = terminal(ctx.state, action),
            !.log = Append(ctx.log,
                           [type |-> action.type,
                            origin |-> IF ctx.inHandler THEN "handler"
                                                        ELSE "engine",
                            outLen |-> Len(ctx.state.output)])]

(***************************************************************************)
(* commandEngine.js: the capabilities handed to the handlers.              *)
(***************************************************************************)
\* sendToOutput that hands its flag, true by default, to the action creator
commandEngine_sendToOutput_flag(ctx, value, disable) ==
    Dispatch(ctx, sendToOutput(Str(value),
                               IF disable = Undefined THEN "true"
                                                      ELSE disable))

\* sendToOutput: function(value, disable=true): `disable` is not used
commandEngine_sendToOutput(ctx, value, disable) ==
    Dispatch(ctx, sendToOutput(Str(value), Undefined))

commandEngine_pushShell(ctx, commands, prompt) ==
    Dispatch(ctx, pushShell(commands, prompt))

commandEngine_popShell(ctx) == Dispatch(ctx, popShell)

(***************************************************************************)
(* game/common.js: the mailbox command builder.  A handler is named by     *)
(* the `func` field of its entry and run by CallFunc.                      *)
(***************************************************************************)
MailboxShell ==
    << [name |-> "next", func |-> "next",
        description |-> "read next unread mail"],
       [name |-> "quit", func |-> "quit",
        description |-> "quit the mailbox"] >>

MailboxPrompt == "mailbox > "

delimiter == "------------------------\r\n"

\* mailbox that reports the length of the read list
mailbox_func_readCount(ctx, command) ==
    LET unreadMailCount == Len(ctx.mails.read)
        args == Tail(Split(command))
    IN IF Len(args) = 0
       THEN commandEngine_pushShell(
                commandEngine_sendToOutput(ctx,
                    "You have " \o ToString(unreadMailCount) \o " unread "
                    \o pluralize("e-mail", unreadMailCount)
                    \o " in your mailbox", Undefined),
                MailboxShell, MailboxPrompt)
       ELSE ctx

\* mailbox that does not count empty arguments, so that a trailing space
\* is taken as no argument
mailbox_func_skipEmpty(ctx, command) ==
    LET unreadMailCount == Len(ctx.mails.unread)
        args == SelectSeq(Tail(Split(command)), LAMBDA a : a # "")
    IN IF Len(args) = 0
       THEN commandEngine_pushShell(
                commandEngine_sendToOutput(ctx,
                    "You have " \o ToString(unreadMailCount) \o " unread "
                    \o pluralize("e-mail", unreadMailCount)
                    \o " in your mailbox", Undefined),
                MailboxShell, MailboxPrompt)
       ELSE ctx

mailbox_func(ctx, command) ==
    LET unreadMailCount == Len(ctx.mails.unread)
        args == Tail(Split(command))
    IN IF Len(args) = 0
       THEN commandEngine_pushShell(
                commandEngine_sendToOutput(ctx,
                    "You have " \o ToString(unreadMailCount) \o " unread "
                    \o pluralize("e-mail", unreadMailCount)
                    \o " in your mailbox", Undefined),
                MailboxShell, MailboxPrompt)
       ELSE ctx

\* next that takes the newest unread mail (pop) instead of the oldest (shift)
next_func_lifo(ctx, command) ==
    IF Len(ctx.mails.unread) = 0
    THEN commandEngine_sendToOutput(ctx, "there are no more unread e-mails",
                                    Undefined)
    ELSE LET currentMail == Last(ctx.mails.unread)
             moved == [ctx EXCEPT
                         !.mails = [unread |-> Front(ctx.mails.unread),
                                    read |-> Append(ctx.mails.read,
                                                    currentMail)]]
         IN commandEngine_sendToOutput(moved,
                delimiter \o "from: " \o currentMail.from
                \o "\r\n" \o delimiter \o "\r\nsent at: " \o currentMail.sent
                \o "\r\n" \o delimiter \o "\r\nbody: " \o currentMail.body,
                Undefined)

next_func(ctx, command) ==
    IF Len(ctx.mails.unread) = 0
    THEN commandEngine_sendToOutput(ctx, "there are no more unread e-mails",
                                    Undefined)
    ELSE LET currentMail == Head(ctx.mails.unread)
             moved == [ctx EXCEPT
                         !.mails = [unread |-> Tail(ctx.mails.unread),
                                    read |-> Append(ctx.mails.read,
                                                    currentMail)]]
         IN commandEngine_sendToOutput(moved,
                delimiter \o "from: " \o currentMail.from
                \o "\r\n" \o delimiter \o "\r\nsent at: " \o currentMail.sent
                \o "\r\n" \o delimiter \o "\r\nbody: " \o currentMail.body,
                Undefined)

\* quit that pops twice
quit_func_twice(ctx, command) ==
    commandEngine_popShell(commandEngine_popShell(ctx))

quit_func(ctx, command) == commandEngine_popShell(ctx)

mailbox == [name |-> "mailbox", func |-> "mailbox",
            description |-> "opens the mailbox"]

\* (availableCommands[command].func.bind(commandEngine))(fullCommand)
CallFunc(ctx, entry, fullCommand) ==
    LET c == [ctx EXCEPT !.inHandler = TRUE, !.handler = entry.func]
        r == CASE entry.func = "mailbox" -> mailbox_func(c, fullCommand)
               [] entry.func = "next"    -> next_func(c, fullCommand)
               [] entry.func = "quit"    -> quit_func(c, fullCommand)
    IN [r EXCEPT !.inHandler = FALSE]

(***************************************************************************)
(* game/chapter1.js                                                        *)
(***************************************************************************)
Mail1 ==
    [from |-> "Elda Vice", to |-> "Taylor Fen", sent |-> "3 days ago",
     body |-> "Hi Taylor \n How are you? \n I've been worried lately, you haven't sent in your daily report for 3 days now, are you ok?"]

Mail2 ==
    [from |-> "Elda Vice", to |-> "Taylor Fen", sent |-> "Yesterday",
     body |-> "Taylor - please send me a mail once you get this, I need to tell you something important"]

chapter1 ==
    [rootCommands |-> << mailbox >>,
     initialOutput |-> "Welcome to sparrownet terminal (v2.14.1)\nImportant*: Your system is not up-to-date. Please speak with your system adminstrator.",
     mails |-> [unread |-> << Mail1, Mail2 >>, read |-> <<>>]]

RootPrompt == "> "

(***************************************************************************)
(* commandEngine.js: start, runCommand, showHelp.                          *)
(***************************************************************************)
start(ctx, initialState) ==
    Dispatch(Dispatch(ctx, pushShell(initialState.rootCommands, RootPrompt)),
             sendToOutput(Str(initialState.initialOutput), Undefined))

HelpHeader == "action       | Description\r\n--------------------"

HelpLine(entry) ==
    Slice(entry.name \o "                  ", 12) \o "| " \o entry.description

RECURSIVE showHelpLoop(_, _, _)
showHelpLoop(ctx, availableCommands, i) ==
    IF i > Len(availableCommands) THEN ctx
    ELSE showHelpLoop(
            commandEngine_sendToOutput(ctx, HelpLine(availableCommands[i]),
                                       Undefined),
            availableCommands, i + 1)

\* showHelp whose loop skips the first key
showHelp_skipFirst(ctx, availableCommands) ==
    showHelpLoop(commandEngine_sendToOutput(ctx, HelpHeader, Undefined),
                 availableCommands, 2)

\* showHelp without the header line
showHelp_noHeader(ctx, availableCommands) ==
    showHelpLoop(ctx, availableCommands, 1)

showHelp(ctx, availableCommands) ==
    showHelpLoop(commandEngine_sendToOutput(ctx, HelpHeader, Undefined),
                 availableCommands, 1)

\* setTimeout(callback, 1); nothing is scheduled when evaluating the
\* argument threw
setTimeout(ctx, callback) ==
    IF ctx.fault THEN ctx ELSE [ctx EXCEPT !.timers = Append(@, callback)]

\* The handler is called while the argument of setTimeout is evaluated, and
\* what setTimeout receives is the handler's return value, undefined
runCommand(ctx, fullCommand) ==
    LET command == Split(fullCommand)[1]
        c1 == Dispatch(ctx, inputEntered(fullCommand))
        availableCommands == c1.state.availableCommands
    IN IF command = "" THEN Dispatch(c1, returnInput)
       ELSE IF command = "help" THEN showHelp(c1, availableCommands)
       ELSE IF HasOwnProperty(availableCommands, command)
       THEN setTimeout(CallFunc(c1, Lookup(availableCommands, command),
                                fullCommand),
                       Undefined)
       ELSE commandEngine_sendToOutput(c1, "bad command", Undefined)

(***************************************************************************)
(* The state after construction: the reducer's default state, the chapter  *)
(* data as declared, no timer pending.                                     *)
(***************************************************************************)
NoFrame == [commands |-> <<>>, prompt |-> ""]

SymInit == [marks |-> <<>>, valid |-> FALSE, frame |-> NoFrame, deep |-> 0]

LastInit ==
    [op |-> "init", type |-> "", line |-> "", arg |-> Undefined,
     handler |-> "", log |-> <<>>]

HistInit ==
    [open |-> FALSE, commands |-> <<>>, prompt |-> "", shellStack |-> <<>>,
     inside |-> 0, nexts |-> 0]

Init ==
    /\ state = InitialState
    /\ mails = chapter1.mails
    /\ timers = <<>>
    /\ started = FALSE
    /\ fault = FALSE
    /\ last = LastInit
    /\ sym = SymInit
    /\ runs = 0
    /\ hist = HistInit

(***************************************************************************)
(* The application: App calls commandEngine.start(chapter1) once when the  *)
(* module loads; afterwards every line committed in the input box, which   *)
(* is disabled while inputDisabled holds, goes to runCommand.              *)
(***************************************************************************)
Lines ==
    {"", " ", "help", "mailbox", "mailbox ", "mailbox x", "next", "quit",
     "xyz"}

\* What a runCommand call adds to the history: r is the context it ended in
HistStep(r) ==
    IF r.handler = "mailbox"
       /\ \E i \in DOMAIN r.log : r.log[i].type = "PUSH_SHELL"
    THEN [hist EXCEPT !.open = TRUE,
                      !.commands = state.availableCommands,
                      !.prompt = state.prompt,
                      !.shellStack = state.shellStack,
                      !.inside = 0]
    ELSE IF r.handler = "quit" THEN [hist EXCEPT !.open = FALSE]
    ELSE IF r.handler = "next" /\ Len(mails.unread) > 0
    THEN [hist EXCEPT !.nexts = @ + 1,
                      !.inside = IF hist.open THEN @ + 1 ELSE @]
    ELSE [hist EXCEPT !.inside = IF hist.open THEN @ + 1 ELSE @]

Start ==
    /\ ~started
    /\ LET r == start(Ctx(state, mails, timers), chapter1)
       IN /\ state' = r.state
          /\ mails' = r.mails
          /\ timers' = r.timers
          /\ fault' = r.fault
          /\ last' = [LastInit EXCEPT !.op = "start", !.log = r.log]
    /\ started' = TRUE
    /\ UNCHANGED <<sym, runs, hist>>

RunCommand(line) ==
    /\ started
    /\ ~state.inputDisabled
    /\ runs < MaxRuns
    /\ LET r == runCommand(Ctx(state, mails, timers), line)
       IN /\ state' = r.state
          /\ mails' = r.mails
          /\ timers' = r.timers
          /\ fault' = r.fault
          /\ last' = [LastInit EXCEPT !.op = "runCommand", !.line = line,
                                      !.handler = r.handler, !.log = r.log]
          /\ hist' = HistStep(r)
    /\ runs' = runs + 1
    /\ UNCHANGED <<started, sym>>

\* A pending timer fires.  Its callback is the value undefined, which the
\* browser converts to the script text "undefined": running it does nothing
TimerFire ==
    /\ timers # <<>>
    /\ timers' = Tail(timers)
    /\ UNCHANGED <<state, mails, started, fault, last, sym, runs, hist>>

Next ==
    \/ Start
    \/ \E line \in Lines : RunCommand(line)
    \/ TimerFire

Spec == Init /\ [][Next]_vars

(***************************************************************************)
(* The store on its own: any of the five actions, built by its action      *)
(* creator, dispatched in any order, and the engine's sendToOutput called  *)
(* with either flag.                                                       *)
(***************************************************************************)
InputValues == {"", "x"}

Values == {Str(""), Str("x"), Arr(<<"a", "b">>)}

Flags == {Undefined, "true", "false"}

Shells ==
    {[commands |-> chapter1.rootCommands, prompt |-> RootPrompt],
     [commands |-> MailboxShell, prompt |-> MailboxPrompt]}

Added(value) == IF value.isArray THEN Len(value.items) ELSE 1

\* What the history of pushes expects of the frame a pop restores
SymStep(action, threw) ==
    IF action.type = "PUSH_SHELL"
    THEN [marks |-> Append(sym.marks,
                           [commands |-> state.availableCommands,
                            prompt |-> state.prompt]),
          valid |-> FALSE, frame |-> NoFrame,
          deep |-> IF Len(sym.marks) + 1 > sym.deep THEN Len(sym.marks) + 1
                                                    ELSE sym.deep]
    ELSE IF action.type = "POP_SHELL" /\ ~threw /\ sym.marks # <<>>
    THEN [marks |-> Front(sym.marks), valid |-> TRUE,
          frame |-> Last(sym.marks), deep |-> sym.deep]
    ELSE SymInit

StoreDispatch(action, op, arg) ==
    LET r == Dispatch(Ctx(state, mails, timers), action)
    IN /\ state' = r.state
       /\ fault' = r.fault
       /\ last' = [LastInit EXCEPT !.op = op, !.type = action.type,
                                   !.arg = arg, !.log = r.log]
       /\ sym' = SymStep(action, r.fault)

InputEntered(value) ==
    /\ Len(state.output) < MaxOutput
    /\ StoreDispatch(inputEntered(value), "dispatch", Undefined)
    /\ UNCHANGED <<mails, timers, started, runs, hist>>

AddOutput(value, flag) ==
    /\ Len(state.output) + Added(value) <= MaxOutput
    /\ StoreDispatch(sendToOutput(value, flag), "dispatch", flag)
    /\ UNCHANGED <<mails, timers, started, runs, hist>>

ReturnInput ==
    /\ StoreDispatch(returnInput, "dispatch", Undefined)
    /\ UNCHANGED <<mails, timers, started, runs, hist>>

PushShell(commands, prompt) ==
    /\ Len(state.shellStack) < MaxDepth
    /\ StoreDispatch(pushShell(commands, prompt), "dispatch", Undefined)
    /\ UNCHANGED <<mails, timers, started, runs, hist>>

\* On an empty shellStack the reducer throws and the store keeps its state
PopShell ==
    /\ StoreDispatch(popShell, "dispatch", Undefined)
    /\ UNCHANGED <<mails, timers, started, runs, hist>>

EngineSendToOutput(value, flag) ==
    /\ Len(state.output) < MaxOutput
    /\ LET r == commandEngine_sendToOutput(Ctx(state, mails, timers),
                                           value, flag)
       IN /\ state' = r.state
          /\ fault' = r.fault
          /\ last' = [LastInit EXCEPT !.op = "sendToOutput",
                                      !.type = "ADD_OUTPUT",
                                      !.arg = flag, !.log = r.log]
          /\ sym' = SymInit
          /\ UNCHANGED <<mails, timers, started, runs, hist>>

NextStore ==
    \/ \E v \in InputValues : InputEntered(v)
    \/ \E v \in Values, f \in Flags : AddOutput(v, f)
    \/ ReturnInput
    \/ \E sh \in Shells : PushShell(sh.commands, sh.prompt)
    \/ PopShell
    \/ \E v \in InputValues, f \in Flags : EngineSendToOutput(v, f)

SpecStore == Init /\ [][NextStore]_vars

(***************************************************************************)
(* Properties.                                                             *)
(***************************************************************************)
\* The step is a runCommand call
Ran == runs' = runs + 1 /\ last'.op = "runCommand"

\* The command token of the line the step ran
Command == Split(last'.line)[1]

FrameUnchanged ==
    /\ state'.shellStack = state.shellStack
    /\ state'.availableCommands = state.availableCommands
    /\ state'.prompt = state.prompt

\* C1: stack symmetry.  After a sequence of PushShell/PopShell actions in
\* which every pop has its push, a pop leaves availableCommands and prompt
\* as they were before the push it matches; so a balanced sequence ends
\* with the values that were active before its first push.
StackSymmetry ==
    sym.valid =>
        /\ state.availableCommands = sym.frame.commands
        /\ state.prompt = sym.frame.prompt

\* A balanced sequence with a nested push has just ended with a pop
StackSymmetryWitness ==
    /\ sym.valid
    /\ sym.marks = <<>>
    /\ sym.deep >= 2
    /\ last.type = "POP_SHELL"
    /\ ~fault

\* C2: PopShell on an empty shellStack is a no-op: the state is unchanged,
\* input is enabled and nothing is thrown.
PopEmptyIsNoOp ==
    [][last'.type = "POP_SHELL" /\ Len(state.shellStack) = 0 =>
          /\ state' = state
          /\ ~state'.inputDisabled
          /\ ~fault']_vars

\* C3: append-only transcript.  Whatever store action is applied, the
\* output before it is a prefix of the output after it.
AppendOnly == [][IsPrefix(state.output, state'.output)]_vars

\* A store action was applied to a transcript that already had entries
AppendOnlyWitness ==
    /\ Len(state.output) >= 2
    /\ last.type = "PUSH_SHELL"
    /\ Len(state.shellStack) >= 1

\* C4: a dispatched handler does not run inline: no store action emitted
\* by the handler is applied before runCommand returns.
HandlerDeferred ==
    last.op = "runCommand" /\ last.handler # "" =>
        \A i \in DOMAIN last.log : last.log[i].origin # "handler"

\* C5: echo before handler.  When runCommand dispatches a handler, the
\* entry added at the first new position of output is the prompt active
\* before the call followed by the line, and every store action of the
\* handler is applied to an output that already holds that entry.
EchoBeforeHandler ==
    [][Ran /\ last'.handler # "" =>
          /\ Len(state'.output) > Len(state.output)
          /\ state'.output[Len(state.output) + 1] = state.prompt \o last'.line
          /\ \A i \in DOMAIN last'.log :
                last'.log[i].origin = "handler" =>
                    last'.log[i].outLen >= Len(state.output) + 1]_vars

\* quit was run inside the mailbox shell: its handler popped the shell and
\* the echo carries the mailbox prompt
EchoBeforeHandlerWitness ==
    /\ last.op = "runCommand"
    /\ last.handler = "quit"
    /\ state.prompt = RootPrompt
    /\ Last(state.output) = MailboxPrompt \o "quit"
    /\ \E i \in DOMAIN last.log :
          last.log[i].origin = "handler" /\ last.log[i].type = "POP_SHELL"

\* C6: sendToOutput(value, returnInput) sets inputDisabled = !returnInput,
\* returnInput being true when omitted, through the action creator and
\* through the engine's wrapper alike.
OutputHonoursFlag ==
    last.type = "ADD_OUTPUT" =>
        state.inputDisabled = (last.arg = "false")

\* C7: runCommand("") ends with input enabled, adds exactly one entry, the
\* active prompt followed by the empty string, and leaves the shell alone.
EmptyCommand ==
    [][Ran /\ last'.line = "" =>
          /\ ~state'.inputDisabled
          /\ state'.output = Append(state.output, state.prompt \o "")
          /\ FrameUnchanged]_vars

\* The empty line was run inside the mailbox shell
EmptyCommandWitness ==
    /\ last.op = "runCommand"
    /\ last.line = ""
    /\ state.prompt = MailboxPrompt
    /\ Last(state.output) = MailboxPrompt

\* The command name a help line shows: its first 12 columns without the
\* padding
RECURSIVE TrimRight(_)
TrimRight(s) ==
    IF Len(s) > 0 /\ SubSeq(s, Len(s), Len(s)) = " "
    THEN TrimRight(SubSeq(s, 1, Len(s) - 1))
    ELSE s

ListedName(helpLine) == TrimRight(SubSeq(helpLine, 1, Min(12, Len(helpLine))))

\* The description a help line shows: what follows the "| " separator
ListedDescription(helpLine) == SubSeq(helpLine, 15, Len(helpLine))

\* C8: runCommand("help") lists every key of the active table exactly once
\* with its description, and lists nothing else: no key of a frame lower
\* in shellStack that the active table does not have.
HelpListsActiveTable ==
    [][Ran /\ Command = "help" =>
          LET table == state.availableCommands
              listing == SubSeq(state'.output, Len(state.output) + 3,
                                Len(state'.output))
          IN /\ Len(state'.output) >= Len(state.output) + 2
             /\ \A i \in DOMAIN table :
                   Cardinality({j \in DOMAIN listing :
                                  ListedName(listing[j]) = table[i].name}) = 1
             /\ \A j \in DOMAIN listing :
                   \E i \in DOMAIN table :
                      /\ ListedName(listing[j]) = table[i].name
                      /\ ListedDescription(listing[j]) = table[i].description
             /\ \A f \in DOMAIN state.shellStack :
                   \A k \in DOMAIN state.shellStack[f].commands :
                      LET key == state.shellStack[f].commands[k].name
                      IN ~HasOwnProperty(table, key) =>
                            \A j \in DOMAIN listing :
                               ListedName(listing[j]) # key]_vars

\* help was run inside the mailbox shell, above the root frame
HelpListsActiveTableWitness ==
    /\ last.op = "runCommand"
    /\ last.line = "help"
    /\ state.availableCommands = MailboxShell
    /\ Len(state.shellStack) = 2
    /\ HasOwnProperty(state.shellStack[2].commands, "mailbox")

\* C9: a line whose command token is not empty, not help and not a key of
\* the active table adds the echoed line and one "bad command" entry,
\* leaves the shell alone and ends with input enabled.
BadCommand ==
    [][/\ Ran
       /\ Command # ""
       /\ Command # "help"
       /\ ~HasOwnProperty(state.availableCommands, Command)
       => /\ state'.output = state.output \o
                <<state.prompt \o last'.line, "bad command">>
          /\ FrameUnchanged
          /\ ~state'.inputDisabled]_vars

\* mailbox, a key of the root frame only, was run inside the mailbox shell
BadCommandWitness ==
    /\ last.op = "runCommand"
    /\ last.line = "mailbox"
    /\ last.handler = ""
    /\ state.prompt = MailboxPrompt
    /\ Last(state.output) = "bad command"

\* C10: next moves the first unread mail to the end of read, or, with
\* nothing unread, reports it and changes neither list; read followed by
\* unread is always the initial sequence of mails.
MailConserved ==
    [][/\ mails'.read \o mails'.unread = chapter1.mails.unread
       /\ Ran /\ last'.handler = "next" =>
             IF Len(mails.unread) > 0
             THEN /\ mails'.unread = Tail(mails.unread)
                  /\ mails'.read = Append(mails.read, Head(mails.unread))
             ELSE /\ mails' = mails
                  /\ Last(state'.output) = "there are no more unread e-mails"
      ]_vars

\* Both mails were read in order and a further next found nothing
MailConservedWitness ==
    /\ last.handler = "next"
    /\ mails.unread = <<>>
    /\ mails.read = chapter1.mails.unread
    /\ Last(state.output) = "there are no more unread e-mails"

\* C11: quit restores the shell.  After the mailbox was entered and any
\* commands were run inside it, quit leaves the prompt, the active table
\* and shellStack exactly as they were before the mailbox was entered.
QuitRestoresShell ==
    last.op = "runCommand" /\ last.handler = "quit" =>
        /\ ~fault
        /\ state.prompt = hist.prompt
        /\ state.availableCommands = hist.commands
        /\ state.shellStack = hist.shellStack

\* quit was run after two other commands inside the mailbox, one of them
\* a next that moved a mail
QuitRestoresShellWitness ==
    /\ last.op = "runCommand"
    /\ last.handler = "quit"
    /\ hist.inside >= 2
    /\ hist.nexts >= 1
    /\ hist.prompt = RootPrompt
    /\ state.prompt = RootPrompt

\* C12: after start(chapter1) the active table is the chapter's root
\* table, the prompt is the root prompt, the last output entry is the
\* chapter's banner and input is enabled.
StartInstallsRoot ==
    last.op = "start" =>
        /\ state.availableCommands = chapter1.rootCommands
        /\ state.prompt = "> "
        /\ Len(state.output) >= 1
        /\ Last(state.output) = chapter1.initialOutput
        /\ ~state.inputDisabled

\* start has run on the initial state
StartInstallsRootWitness ==
    /\ started
    /\ last.op = "start"
    /\ Len(last.log) = 2
    /\ HasOwnProperty(state.availableCommands, "mailbox")

\* C13: a dispatched handler that emits no store action leaves
\* inputDisabled true, as INPUT_ENTERED set it; and once input is disabled
\* after a runCommand call nothing changes the store any more, no line is
\* accepted, and input stays disabled for good.
SilentHandlerBlocksInput ==
    [][/\ (/\ Ran
           /\ last'.handler # ""
           /\ \A i \in DOMAIN last'.log : last'.log[i].origin # "handler")
          => state'.inputDisabled
       /\ (started /\ state.inputDisabled)
          => /\ state'.inputDisabled
             /\ state' = state
             /\ runs' = runs]_vars

\* The mailbox handler was given an argument and emitted nothing; the
\* timer has fired since and input is still disabled
SilentHandlerBlocksInputWitness ==
    /\ last.op = "runCommand"
    /\ last.handler = "mailbox"
    /\ Len(last.log) = 1
    /\ state.inputDisabled
    /\ timers = <<>>
    /\ runs < MaxRuns

\* C14: InputEntered(value) appends exactly one entry, the active prompt
\* followed by value, sets inputDisabled and leaves prompt, shellStack and
\* availableCommands as they were.
InputEnteredEffect ==
    [][\A v \in InputValues :
          InputEntered(v) =>
             /\ state'.output = Append(state.output, state.prompt \o v)
             /\ state'.inputDisabled
             /\ FrameUnchanged]_vars

\* A value was entered inside the mailbox shell
InputEnteredEffectWitness ==
    /\ last.op = "dispatch"
    /\ last.type = "INPUT_ENTERED"
    /\ state.prompt = MailboxPrompt
    /\ Len(state.shellStack) >= 1
    /\ Last(state.output) = "mailbox > x"
    /\ state.inputDisabled

\* C15: PushShell(commands, prompt) appends the frame of the previously
\* active commands and prompt at the tail of shellStack, leaving the
\* earlier frames alone, installs the given commands and prompt, enables
\* input and leaves output unchanged.
PushShellEffect ==
    [][\A sh \in Shells :
          PushShell(sh.commands, sh.prompt) =>
             /\ Len(state'.shellStack) = Len(state.shellStack) + 1
             /\ SubSeq(state'.shellStack, 1, Len(state.shellStack))
                   = state.shellStack
             /\ Last(state'.shellStack) =
                   [commands |-> state.availableCommands,
                    prompt |-> state.prompt]
             /\ state'.availableCommands = sh.commands
             /\ state'.prompt = sh.prompt
             /\ ~state'.inputDisabled
             /\ state'.output = state.output]_vars

\* The root shell was pushed over the mailbox shell, itself pushed over
\* the initial frame
PushShellEffectWitness ==
    /\ last.op = "dispatch"
    /\ last.type = "PUSH_SHELL"
    /\ Len(state.shellStack) = 2
    /\ state.shellStack[1].commands = <<>>
    /\ state.shellStack[2].prompt = MailboxPrompt
    /\ state.prompt = RootPrompt

\* C16: frame conditions.  ReturnInput changes nothing but inputDisabled;
\* InputEntered, AddOutput and ReturnInput leave shellStack,
\* availableCommands and prompt alone; the depth of shellStack changes
\* only by +1, on PushShell, and by -1, on PopShell.
FrameConditions ==
    [][/\ last'.type = "RETURN_INPUT" =>
             state' = [state EXCEPT !.inputDisabled = state'.inputDisabled]
       /\ last'.type \in {"INPUT_ENTERED", "ADD_OUTPUT", "RETURN_INPUT"} =>
             FrameUnchanged
       /\ last'.type = "PUSH_SHELL" =>
             Len(state'.shellStack) = Len(state.shellStack) + 1
       /\ Len(state'.shellStack) # Len(state.shellStack) =>
             \/ /\ last'.type = "PUSH_SHELL"
                /\ Len(state'.shellStack) = Len(state.shellStack) + 1
             \/ /\ last'.type = "POP_SHELL"
                /\ Len(state'.shellStack) = Len(state.shellStack) - 1]_vars

\* ReturnInput re-enabled input in a nested shell with a transcript
FrameConditionsWitness ==
    /\ last.op = "dispatch"
    /\ last.type = "RETURN_INPUT"
    /\ Len(state.shellStack) = 2
    /\ Len(state.output) >= 1
    /\ state.prompt = MailboxPrompt
    /\ ~state.inputDisabled

\* C17: mailbox without arguments at the root shell adds, after the echo,
\* the count of mails unread at that moment (the initial count less the
\* successful next so far), then pushes the table with exactly the keys
\* next and quit under the prompt "mailbox > ", saving the root table and
\* prompt at the tail of shellStack; input ends enabled.
MailboxEntry ==
    [][/\ Ran
       /\ last'.line = "mailbox"
       /\ HasOwnProperty(state.availableCommands, "mailbox")
       => LET n == Len(chapter1.mails.unread) - hist.nexts
              word == IF n = 1 THEN "e-mail" ELSE "e-mails"
          IN /\ state'.output = state.output \o
                   <<state.prompt \o "mailbox",
                     "You have " \o ToString(n) \o " unread " \o word
                        \o " in your mailbox">>
             /\ [i \in DOMAIN last'.log |-> last'.log[i].type] =
                   <<"INPUT_ENTERED", "ADD_OUTPUT", "PUSH_SHELL">>
             /\ Len(state'.availableCommands) = 2
             /\ {state'.availableCommands[i].name :
                    i \in DOMAIN state'.availableCommands} = {"next", "quit"}
             /\ state'.prompt = "mailbox > "
             /\ state'.shellStack =
                   Append(state.shellStack,
                          [commands |-> state.availableCommands,
                           prompt |-> state.prompt])
             /\ ~state'.inputDisabled]_vars

\* The mailbox was entered again after one mail had been read
MailboxEntryWitness ==
    /\ last.op = "runCommand"
    /\ last.line = "mailbox"
    /\ last.handler = "mailbox"
    /\ hist.nexts = 1
    /\ Last(state.output) = "You have 1 unread e-mail in your mailbox"
    /\ state.prompt = MailboxPrompt

\* The store actions of kind ADD_OUTPUT a runCommand call dispatched
OutputsOf(log) == {i \in DOMAIN log : log[i].type = "ADD_OUTPUT"}

\* C18, as stated: runCommand("help") emits exactly one AddOutput action
\* after the echo, carrying the whole listing, and ends with input enabled.
HelpEmitsOneOutput ==
    [][Ran /\ Command = "help" =>
          /\ Cardinality(OutputsOf(last'.log)) = 1
          /\ ~state'.inputDisabled]_vars

\* C18, amended: runCommand("help") emits, after the echo, one AddOutput
\* for the header and one more for each key of the active table, nothing
\* else, and ends with input enabled.
HelpEmitsHeaderAndLines ==
    [][Ran /\ Command = "help" =>
          /\ Len(last'.log) = 2 + Len(state.availableCommands)
          /\ last'.log[1].type = "INPUT_ENTERED"
          /\ OutputsOf(last'.log) = 2 .. Len(last'.log)
          /\ \A i \in DOMAIN last'.log : last'.log[i].origin = "engine"
          /\ Len(state'.output) = Len(state.output) + Len(last'.log)
          /\ state'.output[Len(state.output) + 2] = HelpHeader
          /\ FrameUnchanged
          /\ ~state'.inputDisabled]_vars

\* help was run at the root shell: header and one line for mailbox
HelpEmitsHeaderAndLinesWitness ==
    /\ last.op = "runCommand"
    /\ last.line = "help"
    /\ state.prompt = RootPrompt
    /\ Cardinality(OutputsOf(last.log)) = 2
    /\ Last(state.output) = "mailbox     | opens the mailbox"

\* C19: after start(chapter1), whatever lines are run, no runCommand call
\* and no store transition throws; the worst that is reached is a state
\* with input disabled.
NoFault == started => ~fault

\* A run that entered the mailbox, read a mail, quit and then got stuck
\* with input disabled, without any fault
NoFaultWitness ==
    /\ started
    /\ ~fault
    /\ state.inputDisabled
    /\ hist.nexts >= 1
    /\ ~hist.open
    /\ Len(state.shellStack) = 1

\* The root shell of chapter1 over the initial frame
AtRoot(s) ==
    /\ s.availableCommands = chapter1.rootCommands
    /\ s.prompt = "> "
    /\ Len(s.shellStack) = 1

\* The mailbox shell over the root shell
InMailbox(s) ==
    /\ Len(s.availableCommands) = 2
    /\ {s.availableCommands[i].name : i \in DOMAIN s.availableCommands}
          = {"next", "quit"}
    /\ s.prompt = "mailbox > "
    /\ Len(s.shellStack) = 2

\* C20: after start(chapter1) the shell is either the root table with
\* prompt "> " at depth 1 or the mailbox table with prompt "mailbox > " at
\* depth 2; the mailbox handler runs only at the root, next and quit only
\* inside the mailbox, and PopShell is never applied to an empty
\* shellStack.
ShellShapes ==
    [][/\ started' => (AtRoot(state') \/ InMailbox(state'))
       /\ Ran /\ last'.handler = "mailbox" => AtRoot(state)
       /\ Ran /\ last'.handler \in {"next", "quit"} => InMailbox(state)
       /\ (\E i \in DOMAIN last'.log : last'.log[i].type = "POP_SHELL")
             => Len(state.shellStack) > 0
       /\ ~fault']_vars

\* Back at the root after the mailbox was entered and quit twice
ShellShapesWitness ==
    /\ last.op = "runCommand"
    /\ last.handler = "quit"
    /\ AtRoot(state)
    /\ runs >= 4
    /\ hist.nexts = 0

\* The line is "mailbox" followed by a space and anything, or nothing, more
MailboxWithSpace(line) == Len(line) >= 8 /\ SubSeq(line, 1, 8) = "mailbox "

\* C21: stuck input.  After start(chapter1) a runCommand(line) call ends
\* with input disabled exactly when it is issued at the root shell and the
\* line is "mailbox" followed by a space; then only the echoed line is
\* added to output and shellStack, availableCommands and prompt stay as
\* they were.  Every other line ends with input enabled.
StuckInputCharacterised ==
    [][Ran =>
          /\ state'.inputDisabled <=>
                (AtRoot(state) /\ MailboxWithSpace(last'.line))
          /\ state'.inputDisabled =>
                /\ state'.output =
                      Append(state.output, state.prompt \o last'.line)
                /\ FrameUnchanged]_vars

\* "mailbox " got stuck at the root after the mailbox had been entered,
\* where the same kind of line is an unknown command, and quit
StuckInputCharacterisedWitness ==
    /\ last.op = "runCommand"
    /\ last.line = "mailbox "
    /\ state.inputDisabled
    /\ AtRoot(state)
    /\ ~hist.open
    /\ hist.prompt = RootPrompt
    /\ Last(state.output) = "> mailbox "

====
